---- MODULE Spec2Model ----
(***************************************************************************)
(* AutoComicRefiner (run.py): the batch pipeline of                        *)
(* process_images_with_config.  A run scans the input tree, prepares the   *)
(* mirrored output directories under input_root/new, filters the files     *)
(* through the freshness check, hands the rest to a worker pool and tallies *)
(* the results into a summary.                                             *)
(*                                                                         *)
(* The file system is part of the state: directories are paths relative to *)
(* the input root (sequences of names, << >> is the input root), files are *)
(* keyed by directory, stem and extension.  The clock is monotonic: every   *)
(* write stamps the current time and time advances only between runs.      *)
(***************************************************************************)
EXTENDS Integers, Sequences, FiniteSets, TLC

VARIABLES
    dirs,        \* directories that exist, as paths relative to the input root
    files,       \* existing files: key -> [mtime, w, h, ok, src, part]
    now,         \* the clock
    cfg,         \* the configuration dictionary of the current run
    pc,          \* position of process_images_with_config
    discovered,  \* all_image_paths_discovered
    parents,     \* unique_original_parent_dirs still to prepare
    tasks,       \* tasks_to_process
    skipped,     \* skipped_due_to_cache
    started,     \* number of tasks handed to the pool's workers so far
    running,     \* indices of the tasks executing in a worker
    results,     \* results, in order of completion
    summary,     \* the returned summary (status "none" while running)
    prev,        \* the summary and mode of the previous run
    hist,        \* observations of the current run
    runs,        \* number of runs started
    faults       \* number of environment failures so far

vars == << dirs, files, now, cfg, pc, discovered, parents, tasks, skipped,
           started, running, results, summary, prev, hist, runs, faults >>

-----------------------------------------------------------------------------
(* Bounds of the model *)

\* number of times the clock may advance (a source file is touched)
MaxTime == 1
\* number of runs of process_images_with_config in one behaviour
MaxRuns == 2
\* number of environment failures (an OSError, a failing save, a failing
\* pool) in one behaviour
MaxFaults == 1

-----------------------------------------------------------------------------
(* Sequences and paths *)

Range(s) == { s[i] : i \in 1..Len(s) }

Front(s) == SubSeq(s, 1, Len(s) - 1)

IsPrefix(p, d) == Len(p) <= Len(d) /\ SubSeq(d, 1, Len(p)) = p

Prefixes(d) == { SubSeq(d, 1, n) : n \in 0..Len(d) }

\* the longest common prefix of two paths
RECURSIVE CommonPrefix(_, _)
CommonPrefix(a, b) ==
    IF a = << >> \/ b = << >> \/ Head(a) # Head(b) THEN << >>
    ELSE << Head(a) >> \o CommonPrefix(Tail(a), Tail(b))

\* the position of a directory name in string order
NameRank(n) == CASE n = "new" -> 1 [] n = "sub" -> 2 [] OTHER -> 3

\* string order of two paths under the same root: a prefix sorts first
RECURSIVE PathLess(_, _)
PathLess(a, b) ==
    IF a = << >> THEN b # << >>
    ELSE IF b = << >> THEN FALSE
    ELSE IF Head(a) # Head(b) THEN NameRank(Head(a)) < NameRank(Head(b))
    ELSE PathLess(Tail(a), Tail(b))

\* sorted(list(S)) for a set of paths
RECURSIVE SortedPaths(_)
SortedPaths(S) ==
    IF S = {} THEN << >>
    ELSE LET m == CHOOSE x \in S : \A y \in S \ {x} : PathLess(x, y)
         IN  << m >> \o SortedPaths(S \ {m})

\* all orderings of a finite set
RECURSIVE Perms(_)
Perms(S) ==
    IF S = {} THEN { << >> }
    ELSE UNION { { << x >> \o p : p \in Perms(S \ {x}) } : x \in S }

-----------------------------------------------------------------------------
(* Program constants *)

NEW_ROOT_OUTPUT_SUBFOLDER_NAME == "new"

supported_formats == { ".png", ".jpg", ".jpeg", ".bmp", ".gif", ".tiff", ".webp" }

\* str.lower() on the extensions that occur
Lower(e) == CASE e = ".JPG" -> ".jpg" [] e = ".PNG" -> ".png" [] OTHER -> e

\* str.upper() on the format names that occur
Upper(s) == CASE s = "jpeg" -> "JPEG" [] s = "png" -> "PNG" [] OTHER -> s

\* the default filename templates; a template is prefix{base}suffix[{page_num}]{ext}
Tpl(suf, page) == [suf |-> suf, page |-> page]
DefaultSingle == Tpl("", FALSE)
DefaultPage1 == Tpl("_p1", FALSE)
DefaultPage2 == Tpl("_p2", FALSE)

-----------------------------------------------------------------------------
(* Paths and names *)

FileKey(d, b, e) == [dir |-> d, base |-> b, ext |-> e]

\* os.path.basename
Basename(f) == f.base \o f.ext

\* the file, if any, that sits at the path of directory d
AsFile(d) == IF d = << >> THEN FileKey(<< >>, "", "")
             ELSE FileKey(Front(d), d[Len(d)], "")

\* os.path.isdir
IsDir(D, d) == d \in D

\* os.path.exists of a directory path: a directory or a plain file of that name
PathExists(D, F, d) == d \in D \/ (d # << >> /\ AsFile(d) \in DOMAIN F)

\* str.format of a filename template; pn = 0 when page_num is not supplied,
\* and a placeholder without a value raises KeyError
Format(t, b, e, pn) ==
    IF t.page /\ pn = 0 THEN [err |-> TRUE, base |-> "", ext |-> ""]
    ELSE [err |-> FALSE,
          base |-> b \o t.suf \o (IF t.page THEN ToString(pn) ELSE ""),
          ext |-> e]

-----------------------------------------------------------------------------
(* Pure functions of run.py *)

\* a format policy that ignores the configured fallback
FormatJpegForOthers(original_ext_lower, config) ==
    IF original_ext_lower = ".png" THEN << "PNG", ".png" >> ELSE << "JPEG", ".jpg" >>

get_dynamic_output_format_and_ext(original_ext_lower, config) ==
    IF original_ext_lower \in { ".jpg", ".jpeg" } THEN << "JPEG", ".jpg" >>
    ELSE IF original_ext_lower = ".png" THEN << "PNG", ".png" >>
    ELSE << Upper(config.output_format_for_others),
            IF config.output_format_for_others = "jpeg" THEN ".jpg" ELSE ".png" >>

\* the mirrored directory of the files of source directory d
\* a target directory that is the source directory itself
TargetIsSourceDir(d) == d

calculate_target_output_dir(d) ==
    IF d = << >> THEN << NEW_ROOT_OUTPUT_SUBFOLDER_NAME >>
    ELSE << NEW_ROOT_OUTPUT_SUBFOLDER_NAME >> \o d

\* Python floats are IEEE 754 doubles.  A positive double is modelled as a
\* record [m, e]: m is the significand, a sequence of at most Mantissa bits
\* with the most significant first, and the value is m * 2^e.
Mantissa == 53

\* 2^n for n >= 0
RECURSIVE Pow2(_)
Pow2(n) == IF n = 0 THEN 1 ELSE 2 * Pow2(n - 1)

\* the k low bits of v, most significant first
Bits(v, k) == [i \in 1..k |-> (v \div Pow2(k - i)) % 2]

\* the number of bits of a natural number below 2^30 (0 for 0)
BitLen(n) == CHOOSE k \in 0..30 : n < Pow2(k) /\ (k = 0 \/ n >= Pow2(k - 1))

\* the bits of a natural number, most significant first (<< >> for 0)
IntBits(n) == Bits(n, BitLen(n))

\* the natural number a bit sequence denotes
RECURSIVE BitsInt(_)
BitsInt(s) ==
    IF s = << >> THEN 0
    ELSE IF Len(s) = 1 THEN s[1]
    ELSE LET h == Len(s) \div 2
         IN  BitsInt(SubSeq(s, 1, h)) * Pow2(Len(s) - h)
             + BitsInt(SubSeq(s, h + 1, Len(s)))

\* the first 8 * n bits after the binary point of rem / den, for rem < den,
\* by long division, eight bits at a step
RECURSIVE FracBits(_, _, _)
FracBits(rem, den, n) ==
    IF n = 0 THEN << >>
    ELSE Bits((rem * 256) \div den, 8) \o FracBits((rem * 256) % den, den, n - 1)

\* the remainder left after those bits
RECURSIVE FracRem(_, _, _)
FracRem(rem, den, n) ==
    IF n = 0 THEN rem ELSE FracRem((rem * 256) % den, den, n - 1)

\* a bit sequence without its leading zeros
Strip(s) ==
    LET ones == { i \in 1..Len(s) : s[i] = 1 }
    IN  IF ones = {} THEN << >>
        ELSE SubSeq(s, CHOOSE i \in ones : \A j \in ones : i <= j, Len(s))

\* a bit sequence plus one
Incr(s) ==
    LET zeros == { i \in 1..Len(s) : s[i] = 0 }
    IN  IF zeros = {} THEN << 1 >> \o [i \in 1..Len(s) |-> 0]
        ELSE LET k == CHOOSE i \in zeros : \A j \in zeros : j <= i
             IN  [i \in 1..Len(s) |-> IF i < k THEN s[i] ELSE IF i = k THEN 1 ELSE 0]

\* round to nearest, ties to even: the double nearest to s * 2^e, where
\* sticky tells that the exact value lies above s * 2^e
RoundBits(s, sticky, e) ==
    IF Len(s) <= Mantissa THEN [m |-> s, e |-> e]
    ELSE LET kept == SubSeq(s, 1, Mantissa)
             more == sticky \/ \E i \in (Mantissa + 2)..Len(s) : s[i] = 1
             up == s[Mantissa + 1] = 1 /\ (more \/ kept[Mantissa] = 1)
             r == IF up THEN Incr(kept) ELSE kept
             e2 == e + Len(s) - Mantissa
         IN  IF Len(r) > Mantissa THEN [m |-> Front(r), e |-> e2 + 1]
             ELSE [m |-> r, e |-> e2]

\* a / float(b) for integers a >= 1, b >= 1
FDiv(a, b) ==
    LET n == (Mantissa + BitLen(b) + 8) \div 8
    IN  RoundBits(Strip(IntBits(a \div b) \o FracBits(a % b, b, n)),
                  FracRem(a % b, b, n) # 0, 0 - 8 * n)

\* the bits of x * s, with carry c entering at the least significant bit,
\* eight bits at a step
RECURSIVE MulBits(_, _, _)
MulBits(s, x, c) ==
    IF s = << >> THEN IntBits(c)
    ELSE LET k == IF Len(s) >= 8 THEN 8 ELSE Len(s)
             t == x * BitsInt(SubSeq(s, Len(s) - k + 1, Len(s))) + c
         IN  MulBits(SubSeq(s, 1, Len(s) - k), x, t \div Pow2(k))
             \o Bits(t % Pow2(k), k)

\* x * r for an integer x >= 0 and a double r
FMul(x, r) == RoundBits(Strip(MulBits(r.m, x, 0)), FALSE, r.e)

\* int(r): truncation toward zero
FTrunc(r) ==
    IF r.e >= 0 THEN BitsInt(r.m) * Pow2(r.e)
    ELSE IF Len(r.m) + r.e <= 0 THEN 0
    ELSE BitsInt(SubSeq(r.m, 1, Len(r.m) + r.e))

\* r <= q for doubles: by the position of the leading bit, then by the bits
FLessEq(r, q) ==
    IF Len(r.m) + r.e # Len(q.m) + q.e THEN Len(r.m) + r.e < Len(q.m) + q.e
    ELSE LET bit(x, i) == IF i <= Len(x.m) THEN x.m[i] ELSE 0
             diff == { i \in 1..Mantissa : bit(r, i) # bit(q, i) }
         IN  diff = {} \/ LET i == CHOOSE i \in diff : \A j \in diff : i <= j
                          IN  bit(r, i) < bit(q, i)

\* int(x * (num / float(den)))
Scale(x, num, den) == FTrunc(FMul(x, FDiv(num, den)))

\* min(r, q)
FMin(r, q) == IF FLessEq(r, q) THEN r ELSE q

\* int(original_width * ratio), int(original_height * ratio)
FitBounds(ow, oh, ratio) == << FTrunc(FMul(ow, ratio)), FTrunc(FMul(oh, ratio)) >>

\* the resize arithmetic of the freshness check
\* a simulated resize that leaves out the fit_bounds mode
SimResizeWithoutFitBounds(ow, oh, c) ==
    IF c.resize_mode = "none" THEN << ow, oh >>
    ELSE IF c.resize_mode = "fixed_height" /\ c.target_height > 0
            /\ oh # c.target_height
    THEN << Scale(ow, c.target_height, oh), c.target_height >>
    ELSE IF c.resize_mode = "fixed_width" /\ c.target_width > 0
            /\ ow # c.target_width
    THEN << c.target_width, Scale(oh, c.target_width, ow) >>
    ELSE << ow, oh >>

SimResize(ow, oh, c) ==
    IF c.resize_mode = "none" THEN << ow, oh >>
    ELSE IF c.resize_mode = "fixed_height" /\ c.target_height > 0
            /\ oh # c.target_height
    THEN << Scale(ow, c.target_height, oh), c.target_height >>
    ELSE IF c.resize_mode = "fixed_width" /\ c.target_width > 0
            /\ ow # c.target_width
    THEN << c.target_width, Scale(oh, c.target_width, ow) >>
    ELSE IF c.resize_mode = "fit_bounds" /\ c.max_width > 0 /\ c.max_height > 0
            /\ (ow > c.max_width \/ oh > c.max_height)
    THEN FitBounds(ow, oh, FMin(FDiv(c.max_width, ow), FDiv(c.max_height, oh)))
    ELSE << ow, oh >>

\* the resize arithmetic of the worker
WorkerResize(ow, oh, c) ==
    IF c.resize_mode = "none" THEN << ow, oh >>
    ELSE IF c.resize_mode = "fixed_height" /\ c.target_height > 0
            /\ oh # c.target_height
    THEN << Scale(ow, c.target_height, oh), c.target_height >>
    ELSE IF c.resize_mode = "fixed_width" /\ c.target_width > 0
            /\ ow # c.target_width
    THEN << c.target_width, Scale(oh, c.target_width, ow) >>
    ELSE IF c.resize_mode = "fit_bounds" /\ c.max_width > 0 /\ c.max_height > 0
            /\ (ow > c.max_width \/ oh > c.max_height)
    THEN FitBounds(ow, oh, FMin(FDiv(c.max_width, ow), FDiv(c.max_height, oh)))
    ELSE << ow, oh >>

-----------------------------------------------------------------------------
(* Directory Scanner *)

Children(D, d) == { c \in D : Len(c) = Len(d) + 1 /\ IsPrefix(d, c) }

\* the files one directory contributes: the log file is dropped at the root
ScanDir(F, d, log_filename_val) ==
    { f \in DOMAIN F :
        /\ f.dir = d
        /\ ~(d = << >> /\ Basename(f) = log_filename_val)
        /\ Lower(f.ext) \in supported_formats }

\* os.walk below d, pruning input_root/new
RECURSIVE Walk(_, _, _, _)
Walk(D, F, d, log_filename_val) ==
    IF d = << NEW_ROOT_OUTPUT_SUBFOLDER_NAME >> THEN {}
    ELSE ScanDir(F, d, log_filename_val)
         \cup UNION { Walk(D, F, c, log_filename_val) : c \in Children(D, d) }

\* os.walk below d without the pruning
RECURSIVE WalkAll(_, _, _, _)
WalkAll(D, F, d, log_filename_val) ==
    ScanDir(F, d, log_filename_val)
    \cup UNION { WalkAll(D, F, c, log_filename_val) : c \in Children(D, d) }

\* a scanner that also descends into input_root/new
ScanUnpruned(D, F, log_filename_val) == WalkAll(D, F, << >>, log_filename_val)

\* the set of files get_all_image_files returns
get_all_image_files(D, F, log_filename_val) == Walk(D, F, << >>, log_filename_val)

\* an order os.walk(topdown=True) can produce: every subtree is contiguous
\* and a directory's own files come before those of its subdirectories
IsWalkOrder(s) ==
    /\ \A i, j \in 1..Len(s) :
          i < j => ~(IsPrefix(s[j].dir, s[i].dir) /\ s[j].dir # s[i].dir)
    /\ \A i, j, k \in 1..Len(s) :
          (i < j /\ j < k) => IsPrefix(CommonPrefix(s[i].dir, s[k].dir), s[j].dir)

WalkOrders(S) == { s \in Perms(S) : IsWalkOrder(s) }

-----------------------------------------------------------------------------
(* Freshness Cache *)

\* os.path.splitext, lowered, through the format policy
FinalOutputExt(f, c) == get_dynamic_output_format_and_ext(Lower(f.ext), c)[2]

\* the output names the freshness check expects for a file of the given
\* post-resize size: a sequence of Format results
ExpectedNames(f, c, dims) ==
    IF c.enable_double_page_split /\ (dims[2] > 0 /\ dims[1] > dims[2])
    THEN << Format(c.template_split_page1, f.base, FinalOutputExt(f, c), 1),
            Format(c.template_split_page2, f.base, FinalOutputExt(f, c), 2) >>
    ELSE << Format(c.template_single, f.base, FinalOutputExt(f, c), 0) >>

\* a freshness check that wants the outputs strictly newer than the source
CheckStrictlyNewer(D, F, f, c) ==
    IF c.overwrite_existing \/ c.is_dry_run THEN "no"
    ELSE IF ~IsDir(D, calculate_target_output_dir(f.dir)) THEN "no"
    ELSE IF f \notin DOMAIN F \/ ~F[f].ok THEN "no"
    ELSE LET names == ExpectedNames(f, c, SimResize(F[f].w, F[f].h, c))
             out(i) == FileKey(calculate_target_output_dir(f.dir),
                               names[i].base, names[i].ext)
         IN  IF \E i \in 1..Len(names) : names[i].err THEN "raise"
             ELSE IF \E i \in 1..Len(names) :
                        out(i) \notin DOMAIN F \/ F[out(i)].mtime <= F[f].mtime
                  THEN "no"
             ELSE "yes"

\* a freshness check that ignores modification times
CheckExistenceOnly(D, F, f, c) ==
    IF c.overwrite_existing \/ c.is_dry_run THEN "no"
    ELSE IF ~IsDir(D, calculate_target_output_dir(f.dir)) THEN "no"
    ELSE IF f \notin DOMAIN F \/ ~F[f].ok THEN "no"
    ELSE LET names == ExpectedNames(f, c, SimResize(F[f].w, F[f].h, c))
             out(i) == FileKey(calculate_target_output_dir(f.dir),
                               names[i].base, names[i].ext)
         IN  IF \E i \in 1..Len(names) : names[i].err THEN "raise"
             ELSE IF \E i \in 1..Len(names) : out(i) \notin DOMAIN F THEN "no"
             ELSE "yes"

\* a freshness check that consults the outputs in every mode
CheckInEveryMode(D, F, f, c) ==
    IF ~IsDir(D, calculate_target_output_dir(f.dir)) THEN "no"
    ELSE IF f \notin DOMAIN F \/ ~F[f].ok THEN "no"
    ELSE LET names == ExpectedNames(f, c, SimResize(F[f].w, F[f].h, c))
             out(i) == FileKey(calculate_target_output_dir(f.dir),
                               names[i].base, names[i].ext)
         IN  IF \E i \in 1..Len(names) : names[i].err THEN "raise"
             ELSE IF \E i \in 1..Len(names) :
                        out(i) \notin DOMAIN F \/ F[out(i)].mtime < F[f].mtime
                  THEN "no"
             ELSE "yes"

\* a freshness check that is satisfied by one up-to-date expected output
CheckAnyOutput(D, F, f, c) ==
    IF c.overwrite_existing \/ c.is_dry_run THEN "no"
    ELSE IF ~IsDir(D, calculate_target_output_dir(f.dir)) THEN "no"
    ELSE IF f \notin DOMAIN F \/ ~F[f].ok THEN "no"
    ELSE LET names == ExpectedNames(f, c, SimResize(F[f].w, F[f].h, c))
             out(i) == FileKey(calculate_target_output_dir(f.dir),
                               names[i].base, names[i].ext)
         IN  IF \E i \in 1..Len(names) : names[i].err THEN "raise"
             ELSE IF \A i \in 1..Len(names) :
                        out(i) \notin DOMAIN F \/ F[out(i)].mtime < F[f].mtime
                  THEN "no"
             ELSE "yes"

\* the loop over the expected outputs: names are the formatted templates
OutputsUpToDate(F, f, names) ==
    LET out(i) == FileKey(calculate_target_output_dir(f.dir),
                          names[i].base, names[i].ext)
    IN  IF \E i \in 1..Len(names) : names[i].err THEN "raise"
        ELSE IF \E i \in 1..Len(names) :
                   out(i) \notin DOMAIN F \/ F[out(i)].mtime < F[f].mtime
             THEN "no"
        ELSE "yes"

\* a freshness check that takes an unreadable source for up to date
CheckUnreadableFresh(D, F, f, c) ==
    IF c.overwrite_existing \/ c.is_dry_run THEN "no"
    ELSE IF ~IsDir(D, calculate_target_output_dir(f.dir)) THEN "no"
    ELSE IF f \notin DOMAIN F \/ ~F[f].ok THEN "yes"
    ELSE OutputsUpToDate(F, f, ExpectedNames(f, c, SimResize(F[f].w, F[f].h, c)))

\* "yes": up to date; "no": to be processed; "raise": an exception leaves
\* the function (str.format outside the try block)
check_if_already_processed(D, F, f, c) ==
    IF c.overwrite_existing \/ c.is_dry_run THEN "no"
    ELSE IF ~IsDir(D, calculate_target_output_dir(f.dir)) THEN "no"
    ELSE IF f \notin DOMAIN F \/ ~F[f].ok THEN "no"
    ELSE OutputsUpToDate(F, f, ExpectedNames(f, c, SimResize(F[f].w, F[f].h, c)))

-----------------------------------------------------------------------------
(* Image Transform: what one worker task does *)

\* an image made from source f at time t; x is the column of the resized
\* image its first column comes from, fmt the container format it is saved in
Written(t, w, h, f, part) ==
    [mtime |-> t, w |-> w, h |-> h, ok |-> TRUE, src |-> f, part |-> part,
     x |-> 0, fmt |-> ""]

\* Image.crop((x0, 0, x1, height))
Crop(img, x0, x1, part) == [img EXCEPT !.w = x1 - x0, !.x = x0, !.part = part]

\* Image.save(path, format = fmt)
Save(img, fmt) == [img EXCEPT !.fmt = fmt]

\* a split that gives the odd column to the left page
MidpointCeil(current_width) == (current_width + 1) \div 2

\* a midpoint that leaves the remainder column of an odd width to the left
MidpointRemainderLeft(current_width) == current_width - current_width \div 2

Midpoint(current_width) == current_width \div 2

\* a split that always saves the left page first
SplitSavesLeftFirst(l2r, p1, p2, left, right) == << << p1, left >>, << p2, right >> >>

\* the two saves of a split file, in the order the code makes them
SplitSaves(l2r, p1, p2, left, right) ==
    IF l2r THEN << << p1, left >>, << p2, right >> >>
    ELSE << << p1, right >>, << p2, left >> >>

\* the plan of worker_process_image for file f: err is set when the task
\* ends in one of its except clauses before saving; saves is the sequence of
\* files it saves, in order (none in a dry run)
\* a split decision that takes a square page for a spread
SplitSquareToo(c, current_width, current_height) ==
    c.enable_double_page_split /\ current_height > 0 /\ current_width >= current_height

\* the condition under which the worker splits the resized image
is_split_action(c, current_width, current_height) ==
    c.enable_double_page_split /\ current_height > 0 /\ current_width > current_height

WorkerFailed == [err |-> TRUE, is_split |-> FALSE, saves |-> << >>]

\* the worker from the resize on: original is the size of the source, dims
\* the size it is to have
ProcessResized(D, f, c, t, original, dims) ==
    LET target == calculate_target_output_dir(f.dir)
        ext == FinalOutputExt(f, c)
        fmt == get_dynamic_output_format_and_ext(Lower(f.ext), c)[1]
        cw == dims[1]
        ch == dims[2]
        resized == Written(t, cw, ch, f, "whole")
    IN  \* Image.resize refuses an empty size
        IF dims # original /\ (cw < 1 \/ ch < 1) THEN WorkerFailed
        ELSE IF is_split_action(c, cw, ch)
        THEN LET midpoint == Midpoint(cw)
                 n1 == Format(c.template_split_page1, f.base, ext, 1)
                 n2 == Format(c.template_split_page2, f.base, ext, 2)
                 left == Crop(resized, 0, midpoint, "left")
                 right == Crop(resized, midpoint, cw, "right")
                 p1 == FileKey(target, n1.base, n1.ext)
                 p2 == FileKey(target, n2.base, n2.ext)
             IN  \* saving into a missing directory is FileNotFoundError
                 IF n1.err \/ n2.err \/ (~c.is_dry_run /\ ~IsDir(D, target))
                 THEN WorkerFailed
                 ELSE [err |-> FALSE, is_split |-> TRUE,
                       saves |->
                         IF c.is_dry_run THEN << >>
                         ELSE SplitSaves(c.split_left_to_right, p1, p2,
                                         Save(left, fmt), Save(right, fmt))]
        ELSE LET n == Format(c.template_single, f.base, ext, 0)
             IN  IF n.err \/ (~c.is_dry_run /\ ~IsDir(D, target)) THEN WorkerFailed
                 ELSE [err |-> FALSE, is_split |-> FALSE,
                       saves |->
                         IF c.is_dry_run THEN << >>
                         ELSE << << FileKey(target, n.base, n.ext),
                                    Save(resized, fmt) >> >>]

worker_process_image(D, F, f, c, t) ==
    IF f \notin DOMAIN F \/ ~F[f].ok THEN WorkerFailed
    ELSE ProcessResized(D, f, c, t, << F[f].w, F[f].h >>,
                        WorkerResize(F[f].w, F[f].h, c))

\* the file map after the first k saves of a plan
RECURSIVE ApplySaves(_, _, _)
ApplySaves(F, saves, k) ==
    IF k = 0 THEN F
    ELSE LET G == ApplySaves(F, saves, k - 1)
             key == saves[k][1]
         IN  [x \in DOMAIN G \cup {key} |-> IF x = key THEN saves[k][2] ELSE G[x]]

-----------------------------------------------------------------------------
(* File system operations *)

\* os.makedirs can succeed: no component of the path is a plain file
CanMakeDirs(D, F, d) ==
    \A p \in Prefixes(d) \ { << >> } : (p \in D) \/ (AsFile(p) \notin DOMAIN F)

\* os.makedirs: the directory and its missing ancestors
MakeDirs(D, d) == D \cup Prefixes(d)

\* the files in directory d and below
FilesBelow(F, d) == { f \in DOMAIN F : IsPrefix(d, f.dir) }

\* the directory d and the directories below it
DirsBelow(D, d) == { x \in D : IsPrefix(d, x) }

\* shutil.rmtree: the directories left
RmTreeDirs(D, d) == { x \in D : ~IsPrefix(d, x) }

\* shutil.rmtree: the files left
RmTreeFiles(F, d) == [f \in DOMAIN F \ FilesBelow(F, d) |-> F[f]]

-----------------------------------------------------------------------------
(* The input trees and configurations explored *)

SrcA == FileKey(<< >>, "a", ".jpg")
SrcB == FileKey(<< "sub" >>, "b", ".png")
SrcC == FileKey(<< >>, "a", ".jpeg")
Sources == { SrcA, SrcB, SrcC }

\* the input trees explored: empty, two files in two directories, and a
\* third file whose output name collides with the first
Trees == { {}, { SrcA, SrcB }, { SrcA, SrcB, SrcC } }

\* a source image: w x h pixels, readable or corrupt
Image(w, h, ok, f) ==
    [mtime |-> 0, w |-> w, h |-> h, ok |-> ok, src |-> f, part |-> "orig",
     x |-> 0, fmt |-> ""]

\* the sizes of the source images: a spread, a portrait page, an odd spread,
\* all of the target height
SizeOf(f) == CASE f = SrcA -> << 4, 2 >> [] f = SrcB -> << 1, 2 >> [] OTHER -> << 3, 2 >>

\* what an earlier run or the user can have left at input_root/new: a
\* directory with a stale file, a plain file of that name, or the up-to-date
\* output of SrcA under the default single-page template
StaleFile == FileKey(<< "new" >>, "old", ".jpg")
BlockerFile == AsFile(<< "new" >>)
FreshFile == FileKey(<< "new" >>, "a", ".jpg")
Leftovers == { "none", "stale", "blocker", "fresh" }

LeftoverFiles(left) ==
    CASE left = "stale" -> { StaleFile }
      [] left = "blocker" -> { BlockerFile }
      [] left = "fresh" -> { FreshFile }
      [] OTHER -> {}

LogFile == FileKey(<< >>, "manga_processing", ".log")

\* config_parser_to_dict over DEFAULT_CONFIG, with the settings that vary
Config(split, single) ==
    [ is_dry_run |-> FALSE,
      overwrite_existing |-> FALSE,
      log_filename |-> "manga_processing.log",
      num_processes |-> 2,
      resize_mode |-> "fixed_height",
      target_height |-> 2,
      target_width |-> 0,
      max_height |-> 0,
      max_width |-> 0,
      output_format_for_others |-> "jpeg",
      enable_double_page_split |-> split,
      split_left_to_right |-> TRUE,
      template_single |-> single,
      template_split_page1 |-> DefaultPage1,
      template_split_page2 |-> DefaultPage2 ]

Configs == { Config(FALSE, DefaultSingle), Config(TRUE, DefaultSingle),
             Config(TRUE, Tpl("_", TRUE)) }

-----------------------------------------------------------------------------
(* The run summary *)

Summary(st, p, s, k, e, d, t) ==
    [ status |-> st, total_processed |-> p, total_split |-> s,
      skipped_due_to_cache |-> k, total_errors |-> e,
      total_discovered |-> d, total_to_process |-> t ]

NoSummary == Summary("none", 0, 0, 0, 0, 0, 0)

\* an exception leaves process_images_with_config: no summary is returned
Raised == Summary("raised", 0, 0, 0, 0, 0, 0)

NoPrev == [ valid |-> FALSE, is_dry_run |-> FALSE, overwrite_existing |-> FALSE,
            summary |-> NoSummary, clean |-> FALSE, touched |-> {} ]

NewHist == [ written |-> {}, removed |-> {}, made |-> {}, excluded |-> {},
             checked |-> {}, save_failed |-> {}, pool_failed |-> FALSE,
             root_failed |-> FALSE ]

Init ==
    /\ \E present \in Trees, corrupt \in SUBSET { SrcC }, left \in Leftovers :
          /\ corrupt \subseteq present
          /\ SrcC \in present => left = "none"
          /\ left = "fresh" => SrcA \in present
          /\ files = [f \in present \cup LeftoverFiles(left) |->
                        IF f \in present
                        THEN Image(SizeOf(f)[1], SizeOf(f)[2], f \notin corrupt, f)
                        ELSE IF f = FreshFile
                        THEN Save(Written(0, SizeOf(SrcA)[1], SizeOf(SrcA)[2],
                                          SrcA, "whole"), "JPEG")
                        ELSE Image(1, 1, TRUE, f)]
          /\ dirs = { << >> }
                    \cup { f.dir : f \in present }
                    \cup (IF left \in { "stale", "fresh" } THEN { << "new" >> } ELSE {})
    /\ now = 0
    /\ cfg \in Configs
    /\ pc = "idle"
    /\ discovered = << >>
    /\ parents = << >>
    /\ tasks = << >>
    /\ skipped = 0
    /\ started = 0
    /\ running = {}
    /\ results = << >>
    /\ summary = NoSummary
    /\ prev = NoPrev
    /\ hist = NewHist
    /\ runs = 0
    /\ faults = 0

-----------------------------------------------------------------------------
(* process_images_with_config *)

Return(s) ==
    /\ pc' = "done"
    /\ summary' = s

\* setup_logging opens the log file in the input root and the scan begins
StartRun(dry, ow) ==
    /\ pc = "idle"
    /\ runs < MaxRuns
    /\ runs' = runs + 1
    /\ cfg' = [cfg EXCEPT !.is_dry_run = dry, !.overwrite_existing = ow]
    /\ files' = [f \in DOMAIN files \cup { LogFile } |->
                   IF f = LogFile THEN Image(0, 0, FALSE, LogFile) ELSE files[f]]
    /\ pc' = "scan"
    /\ summary' = NoSummary
    /\ hist' = NewHist
    /\ discovered' = << >>
    /\ parents' = << >>
    /\ tasks' = << >>
    /\ skipped' = 0
    /\ started' = 0
    /\ running' = {}
    /\ results' = << >>
    /\ UNCHANGED << dirs, now, prev >>
    /\ UNCHANGED faults

\* logging.FileHandler cannot open the log file: the exception is not caught
LoggingFails(dry, ow) ==
    /\ pc = "idle"
    /\ runs < MaxRuns
    /\ runs' = runs + 1
    /\ cfg' = [cfg EXCEPT !.is_dry_run = dry, !.overwrite_existing = ow]
    /\ hist' = NewHist
    /\ discovered' = << >>
    /\ parents' = << >>
    /\ tasks' = << >>
    /\ skipped' = 0
    /\ started' = 0
    /\ running' = {}
    /\ results' = << >>
    /\ Return(Raised)
    /\ UNCHANGED << dirs, files, now, prev >>
    /\ faults < MaxFaults
    /\ faults' = faults + 1

\* step 1: nothing found
ScanEmpty ==
    /\ pc = "scan"
    /\ get_all_image_files(dirs, files, cfg.log_filename) = {}
    /\ Return(Summary("no_images", 0, 0, 0, 0, 0, 0))
    /\ UNCHANGED << dirs, files, now, cfg, discovered, parents, tasks, skipped,
                    started, running, results, prev, hist, runs >>
    /\ UNCHANGED faults

\* step 1: the files found, in an order os.walk can list them
Scan ==
    /\ pc = "scan"
    /\ get_all_image_files(dirs, files, cfg.log_filename) # {}
    /\ discovered' \in WalkOrders(get_all_image_files(dirs, files, cfg.log_filename))
    /\ pc' = "root"
    /\ UNCHANGED << dirs, files, now, cfg, parents, tasks, skipped, started,
                    running, results, summary, prev, hist, runs >>
    /\ UNCHANGED faults

base_new_output_dir_root == << NEW_ROOT_OUTPUT_SUBFOLDER_NAME >>

\* a directory loop that takes the deepest directories first
ParentsDeepestFirst(disc) ==
    LET s == SortedPaths({ f.dir : f \in Range(disc) })
    IN  [i \in 1..Len(s) |-> s[Len(s) + 1 - i]]

unique_original_parent_dirs(disc) == SortedPaths({ f.dir : f \in Range(disc) })

\* the output root exists already, or this is a dry run
RootPresent ==
    /\ pc = "root"
    /\ cfg.is_dry_run \/ PathExists(dirs, files, base_new_output_dir_root)
    /\ parents' = unique_original_parent_dirs(discovered)
    /\ pc' = "prep"
    /\ UNCHANGED << dirs, files, now, cfg, discovered, tasks, skipped, started,
                    running, results, summary, prev, hist, runs >>
    /\ UNCHANGED faults

\* os.makedirs of the output root
RootCreated ==
    /\ pc = "root"
    /\ ~cfg.is_dry_run
    /\ ~PathExists(dirs, files, base_new_output_dir_root)
    /\ dirs' = MakeDirs(dirs, base_new_output_dir_root)
    /\ hist' = [hist EXCEPT !.made = @ \cup { base_new_output_dir_root }]
    /\ parents' = unique_original_parent_dirs(discovered)
    /\ pc' = "prep"
    /\ UNCHANGED << files, now, cfg, discovered, tasks, skipped, started,
                    running, results, summary, prev, runs >>
    /\ UNCHANGED faults

\* a root failure that is logged and then ignored
RootFailsContinues ==
    /\ pc = "root"
    /\ ~cfg.is_dry_run
    /\ ~PathExists(dirs, files, base_new_output_dir_root)
    /\ hist' = [hist EXCEPT !.root_failed = TRUE]
    /\ parents' = unique_original_parent_dirs(discovered)
    /\ pc' = "prep"
    /\ UNCHANGED << dirs, files, now, cfg, discovered, tasks, skipped, started,
                    running, results, summary, prev, runs >>
    /\ faults < MaxFaults
    /\ faults' = faults + 1

\* os.makedirs of the output root raises OSError: the run is aborted
RootFails ==
    /\ pc = "root"
    /\ ~cfg.is_dry_run
    /\ ~PathExists(dirs, files, base_new_output_dir_root)
    /\ hist' = [hist EXCEPT !.root_failed = TRUE]
    /\ Return(Summary("failed", 0, 0, 0, 1, Len(discovered), 0))
    /\ UNCHANGED << dirs, files, now, cfg, discovered, parents, tasks, skipped,
                    started, running, results, prev, runs >>
    /\ faults < MaxFaults
    /\ faults' = faults + 1

\* the end of one iteration of the directory loop
NextParent ==
    /\ parents' = Tail(parents)
    /\ pc' = IF Tail(parents) = << >> THEN "filter" ELSE "prep"

\* an exclusion that forgets to drop the directory's files
ExcludeNothing(disc, d) == disc

\* all_image_paths_discovered without the files whose parent is d
WithoutParent(disc, d) == SelectSeq(disc, LAMBDA f : f.dir # d)

\* a directory loop that creates the mirrored directory in a dry run too
PrepareDirDryRunCreates ==
    LET m == calculate_target_output_dir(Head(parents))
    IN  /\ pc = "prep"
        /\ cfg.is_dry_run
        /\ dirs' = MakeDirs(dirs, m)
        /\ hist' = [hist EXCEPT !.made = @ \cup { m }]
        /\ NextParent
        /\ UNCHANGED << files, now, cfg, discovered, tasks, skipped, started,
                        running, results, summary, prev, runs, faults >>

\* dry run: the directory loop only logs
PrepareDirDryRun ==
    /\ pc = "prep"
    /\ cfg.is_dry_run
    /\ NextParent
    /\ UNCHANGED << dirs, files, now, cfg, discovered, tasks, skipped, started,
                    running, results, summary, prev, hist, runs >>
    /\ UNCHANGED faults

\* the mirrored path exists and overwrite is off: it is left alone
PrepareDirKeep ==
    /\ pc = "prep"
    /\ ~cfg.is_dry_run
    /\ PathExists(dirs, files, calculate_target_output_dir(Head(parents)))
    /\ ~cfg.overwrite_existing
    /\ NextParent
    /\ UNCHANGED << dirs, files, now, cfg, discovered, tasks, skipped, started,
                    running, results, summary, prev, hist, runs >>
    /\ UNCHANGED faults

\* overwrite: shutil.rmtree and os.makedirs of the mirrored directory
\* an overwrite that recreates the mirrored directory over its old content
PrepareDirClearKeepsFiles ==
    LET m == calculate_target_output_dir(Head(parents))
    IN  /\ pc = "prep"
        /\ ~cfg.is_dry_run
        /\ PathExists(dirs, files, m)
        /\ cfg.overwrite_existing
        /\ IsDir(dirs, m)
        /\ dirs' = MakeDirs(dirs, m)
        /\ hist' = [hist EXCEPT !.removed = @ \cup { m }, !.made = @ \cup { m }]
        /\ NextParent
        /\ UNCHANGED << files, now, cfg, discovered, tasks, skipped, started,
                        running, results, summary, prev, runs, faults >>

PrepareDirClear ==
    LET m == calculate_target_output_dir(Head(parents))
    IN  /\ pc = "prep"
        /\ ~cfg.is_dry_run
        /\ PathExists(dirs, files, m)
        /\ cfg.overwrite_existing
        /\ IsDir(dirs, m)
        /\ dirs' = MakeDirs(RmTreeDirs(dirs, m), m)
        /\ files' = RmTreeFiles(files, m)
        /\ hist' = [hist EXCEPT !.removed = @ \cup { m }, !.made = @ \cup { m }]
        /\ NextParent
        /\ UNCHANGED << now, cfg, discovered, tasks, skipped, started, running,
                        results, summary, prev, runs, faults >>

\* overwrite, and the mirrored path is a plain file: shutil.rmtree raises
\* NotADirectoryError, an OSError, and the directory's files are excluded
PrepareDirClearBlocked ==
    LET d == Head(parents)
        m == calculate_target_output_dir(d)
    IN  /\ pc = "prep"
        /\ ~cfg.is_dry_run
        /\ PathExists(dirs, files, m)
        /\ cfg.overwrite_existing
        /\ ~IsDir(dirs, m)
        /\ hist' = [hist EXCEPT !.excluded = @ \cup { d }]
        /\ discovered' = WithoutParent(discovered, d)
        /\ NextParent
        /\ UNCHANGED << dirs, files, now, cfg, tasks, skipped, started, running,
                        results, summary, prev, runs, faults >>

\* overwrite: shutil.rmtree raises OSError part way: the files in kept and
\* the directories in keptdirs survive it, the mirrored directory itself
\* among them; the directory's files are excluded
PrepareDirRmtreeFails ==
    LET d == Head(parents)
        m == calculate_target_output_dir(d)
    IN  /\ pc = "prep"
        /\ ~cfg.is_dry_run
        /\ PathExists(dirs, files, m)
        /\ cfg.overwrite_existing
        /\ IsDir(dirs, m)
        /\ \E kept \in SUBSET FilesBelow(files, m),
              keptdirs \in SUBSET DirsBelow(dirs, m) :
              /\ m \in keptdirs
              /\ \A x \in keptdirs : Len(x) > Len(m) => Front(x) \in keptdirs
              /\ \A f \in kept : f.dir \in keptdirs
              /\ files' = [f \in (DOMAIN files \ FilesBelow(files, m)) \cup kept
                             |-> files[f]]
              /\ dirs' = RmTreeDirs(dirs, m) \cup keptdirs
              /\ hist' = [hist EXCEPT !.excluded = @ \cup { d },
                                      !.removed = @ \cup (DirsBelow(dirs, m) \ keptdirs)]
        /\ discovered' = WithoutParent(discovered, d)
        /\ NextParent
        /\ faults < MaxFaults
        /\ faults' = faults + 1
        /\ UNCHANGED << now, cfg, tasks, skipped, started, running,
                        results, summary, prev, runs >>

\* overwrite: shutil.rmtree succeeds and os.makedirs raises OSError; the
\* directory's files are excluded
PrepareDirRecreateFails ==
    LET d == Head(parents)
        m == calculate_target_output_dir(d)
    IN  /\ pc = "prep"
        /\ ~cfg.is_dry_run
        /\ PathExists(dirs, files, m)
        /\ cfg.overwrite_existing
        /\ IsDir(dirs, m)
        /\ dirs' = RmTreeDirs(dirs, m)
        /\ files' = RmTreeFiles(files, m)
        /\ hist' = [hist EXCEPT !.excluded = @ \cup { d }, !.removed = @ \cup { m }]
        /\ discovered' = WithoutParent(discovered, d)
        /\ NextParent
        /\ faults < MaxFaults
        /\ faults' = faults + 1
        /\ UNCHANGED << now, cfg, tasks, skipped, started, running, results,
                        summary, prev, runs >>

\* the mirrored directory is absent: os.makedirs(exist_ok=True)
PrepareDirCreate ==
    LET m == calculate_target_output_dir(Head(parents))
    IN  /\ pc = "prep"
        /\ ~cfg.is_dry_run
        /\ ~PathExists(dirs, files, m)
        /\ CanMakeDirs(dirs, files, m)
        /\ dirs' = MakeDirs(dirs, m)
        /\ hist' = [hist EXCEPT !.made = @ \cup { m }]
        /\ NextParent
        /\ UNCHANGED << files, now, cfg, discovered, tasks, skipped, started,
                        running, results, summary, prev, runs, faults >>

\* a component of the mirrored path is a plain file: os.makedirs raises
\* OSError and the directory's files are excluded
PrepareDirCreateBlocked ==
    LET d == Head(parents)
        m == calculate_target_output_dir(d)
    IN  /\ pc = "prep"
        /\ ~cfg.is_dry_run
        /\ ~PathExists(dirs, files, m)
        /\ ~CanMakeDirs(dirs, files, m)
        /\ discovered' = WithoutParent(discovered, d)
        /\ hist' = [hist EXCEPT !.excluded = @ \cup { d }]
        /\ NextParent
        /\ UNCHANGED << dirs, files, now, cfg, tasks, skipped, started, running,
                        results, summary, prev, runs, faults >>

\* os.makedirs raises OSError (permissions, disk): the directory's files are
\* excluded
PrepareDirCreateFails ==
    LET d == Head(parents)
        m == calculate_target_output_dir(d)
    IN  /\ pc = "prep"
        /\ ~cfg.is_dry_run
        /\ ~PathExists(dirs, files, m)
        /\ CanMakeDirs(dirs, files, m)
        /\ discovered' = WithoutParent(discovered, d)
        /\ hist' = [hist EXCEPT !.excluded = @ \cup { d }]
        /\ NextParent
        /\ faults < MaxFaults
        /\ faults' = faults + 1
        /\ UNCHANGED << dirs, files, now, cfg, tasks, skipped, started, running,
                        results, summary, prev, runs >>

-----------------------------------------------------------------------------
(* Filtering *)

\* the loop over all_image_paths_discovered: the tasks, the number of files
\* skipped, the files the freshness check was called on, and whether the
\* check raised (which ends the loop)
RECURSIVE FilterLoop(_, _, _, _)
FilterLoop(D, F, c, disc) ==
    IF disc = << >>
    THEN [raised |-> FALSE, tasks |-> << >>, skipped |-> 0, checked |-> {}]
    ELSE LET f == Head(disc)
             r == check_if_already_processed(D, F, f, c)
         IN  IF ~c.is_dry_run /\ ~IsDir(D, calculate_target_output_dir(f.dir))
             THEN FilterLoop(D, F, c, Tail(disc))
             ELSE IF c.overwrite_existing
             THEN [FilterLoop(D, F, c, Tail(disc)) EXCEPT !.tasks = << f >> \o @]
             ELSE IF r = "raise"
             THEN [raised |-> TRUE, tasks |-> << >>, skipped |-> 0, checked |-> { f }]
             ELSE IF r = "yes"
             THEN [FilterLoop(D, F, c, Tail(disc)) EXCEPT
                      !.skipped = @ + 1, !.checked = @ \cup { f }]
             ELSE [FilterLoop(D, F, c, Tail(disc)) EXCEPT
                      !.tasks = << f >> \o @, !.checked = @ \cup { f }]

\* step 2, second half: the task list is not empty
Filter ==
    LET r == FilterLoop(dirs, files, cfg, discovered)
    IN  /\ pc = "filter"
        /\ ~r.raised
        /\ r.tasks # << >>
        /\ tasks' = r.tasks
        /\ skipped' = r.skipped
        /\ hist' = [hist EXCEPT !.checked = r.checked]
        /\ pc' = "pool"
        /\ UNCHANGED << dirs, files, now, cfg, discovered, parents, started,
                        running, results, summary, prev, runs >>
        /\ UNCHANGED faults

\* nothing is left to process
FilterNothingToDo ==
    LET r == FilterLoop(dirs, files, cfg, discovered)
    IN  /\ pc = "filter"
        /\ ~r.raised
        /\ r.tasks = << >>
        /\ skipped' = r.skipped
        /\ hist' = [hist EXCEPT !.checked = r.checked]
        /\ Return(Summary("nothing_to_do", 0, 0, r.skipped, 0, Len(discovered), 0))
        /\ UNCHANGED << dirs, files, now, cfg, discovered, parents, tasks,
                        started, running, results, prev, runs >>
        /\ UNCHANGED faults

\* the freshness check raises: the exception leaves the run
FilterRaises ==
    LET r == FilterLoop(dirs, files, cfg, discovered)
    IN  /\ pc = "filter"
        /\ r.raised
        /\ hist' = [hist EXCEPT !.checked = r.checked]
        /\ Return(Raised)
        /\ UNCHANGED << dirs, files, now, cfg, discovered, parents, tasks,
                        skipped, started, running, results, prev, runs >>
        /\ UNCHANGED faults

-----------------------------------------------------------------------------
(* Dispatching and aggregating *)

Result(st, f, sp) == [status |-> st, file |-> f, is_split |-> sp]

\* imap_unordered hands the next task to a free worker
\* a pool that starts every queued task at once
TaskStartUnbounded ==
    /\ pc = "pool"
    /\ started < Len(tasks)
    /\ started' = started + 1
    /\ running' = running \cup { started + 1 }
    /\ UNCHANGED << dirs, files, now, cfg, pc, discovered, parents, tasks,
                    skipped, results, summary, prev, hist, runs >>
    /\ UNCHANGED faults

TaskStart ==
    /\ pc = "pool"
    /\ started < Len(tasks)
    /\ Cardinality(running) < cfg.num_processes
    /\ started' = started + 1
    /\ running' = running \cup { started + 1 }
    /\ UNCHANGED << dirs, files, now, cfg, pc, discovered, parents, tasks,
                    skipped, results, summary, prev, hist, runs >>
    /\ UNCHANGED faults

\* a worker without its except clauses: the exception of a failing task
\* reaches the parent through the pool and ends the whole batch
TaskFinishPropagates(i) ==
    LET plan == worker_process_image(dirs, files, tasks[i], cfg, now)
    IN  /\ pc = "pool"
        /\ i \in running
        /\ IF plan.err
           THEN /\ running' = {}
                /\ Return(Summary("completed", 0, 0, skipped, Len(tasks),
                                  Len(discovered), Len(tasks)))
                /\ UNCHANGED << files, results, hist >>
           ELSE /\ running' = running \ { i }
                /\ files' = ApplySaves(files, plan.saves, Len(plan.saves))
                /\ results' = Append(results, Result("success", tasks[i],
                                                     plan.is_split))
                /\ hist' = [hist EXCEPT !.written =
                               @ \cup { plan.saves[k][1] : k \in 1..Len(plan.saves) }]
                /\ UNCHANGED << pc, summary >>
        /\ UNCHANGED << dirs, now, cfg, discovered, parents, tasks, skipped,
                        started, prev, runs, faults >>

\* a worker finishes its task: every save succeeded, or the task ended in
\* an except clause before saving anything
\* a worker that creates the target directory itself before saving
TaskFinishMakesDir(i) ==
    LET plan == worker_process_image(dirs, files, tasks[i], cfg, now)
    IN  /\ pc = "pool"
        /\ i \in running
        /\ running' = running \ { i }
        /\ dirs' = MakeDirs(dirs, calculate_target_output_dir(tasks[i].dir))
        /\ files' = ApplySaves(files, plan.saves, Len(plan.saves))
        /\ results' = Append(results,
                             Result(IF plan.err THEN "error" ELSE "success",
                                    tasks[i], plan.is_split))
        /\ hist' = [hist EXCEPT !.written =
                       @ \cup { plan.saves[k][1] : k \in 1..Len(plan.saves) }]
        /\ UNCHANGED << now, cfg, pc, discovered, parents, tasks, skipped,
                        started, summary, prev, runs >>
        /\ UNCHANGED faults

TaskFinish(i) ==
    LET plan == worker_process_image(dirs, files, tasks[i], cfg, now)
    IN  /\ pc = "pool"
        /\ i \in running
        /\ running' = running \ { i }
        /\ files' = ApplySaves(files, plan.saves, Len(plan.saves))
        /\ results' = Append(results,
                             Result(IF plan.err THEN "error" ELSE "success",
                                    tasks[i], plan.is_split))
        /\ hist' = [hist EXCEPT !.written =
                       @ \cup { plan.saves[k][1] : k \in 1..Len(plan.saves) }]
        /\ UNCHANGED << dirs, now, cfg, pc, discovered, parents, tasks, skipped,
                        started, summary, prev, runs >>
        /\ UNCHANGED faults

\* a save raises after k of the task's files were saved: the task returns
\* an error result
TaskSaveFails(i) ==
    LET plan == worker_process_image(dirs, files, tasks[i], cfg, now)
    IN  /\ pc = "pool"
        /\ i \in running
        /\ ~plan.err
        /\ plan.saves # << >>
        /\ \E k \in 0..(Len(plan.saves) - 1) :
              /\ files' = ApplySaves(files, plan.saves, k)
              /\ hist' = [hist EXCEPT
                            !.written = @ \cup { plan.saves[j][1] : j \in 1..k },
                            !.save_failed = @ \cup { tasks[i] }]
        /\ running' = running \ { i }
        /\ results' = Append(results, Result("error", tasks[i], FALSE))
        /\ UNCHANGED << dirs, now, cfg, pc, discovered, parents, tasks, skipped,
                        started, summary, prev, runs >>
        /\ faults < MaxFaults
        /\ faults' = faults + 1

CountStatus(res, st) == Cardinality({ i \in 1..Len(res) : res[i].status = st })

CountSplit(res) ==
    Cardinality({ i \in 1..Len(res) : res[i].status = "success" /\ res[i].is_split })

\* a tally that also counts the results that arrived before the pool failed
TallyOnFailureKeepsResults(res, tsk) ==
    Summary("completed", CountStatus(res, "success"), CountSplit(res), skipped,
            Len(tsk), Len(discovered), Len(tsk))

\* the except clause around the pool: the counters are still zero
TallyOnFailure(res, tsk) ==
    Summary("completed", 0, 0, skipped, Len(tsk), Len(discovered), Len(tsk))

\* a tally that counts only the successes
TallySuccessOnly(res, tsk) ==
    Summary("completed", CountStatus(res, "success"), CountSplit(res), skipped,
            0, Len(discovered), Len(tsk))

\* the loop over results after the pool has closed
Tally(res, tsk) ==
    Summary("completed", CountStatus(res, "success"), CountSplit(res), skipped,
            CountStatus(res, "error"), Len(discovered), Len(tsk))

\* creating or running the pool raises: the workers are terminated
PoolFails ==
    /\ pc = "pool"
    /\ running' = {}
    /\ hist' = [hist EXCEPT !.pool_failed = TRUE]
    /\ Return(TallyOnFailure(results, tasks))
    /\ UNCHANGED << dirs, files, now, cfg, discovered, parents, tasks, skipped,
                    started, results, prev, runs >>
    /\ faults < MaxFaults
    /\ faults' = faults + 1

\* every result has arrived: tally and return the summary
Aggregate ==
    /\ pc = "pool"
    /\ Len(results) = Len(tasks)
    /\ Return(Tally(results, tasks))
    /\ UNCHANGED << dirs, files, now, cfg, discovered, parents, tasks, skipped,
                    started, running, results, prev, hist, runs >>
    /\ UNCHANGED faults

-----------------------------------------------------------------------------
(* Between runs *)

\* the caller has the summary; the run's locals are gone
Finish ==
    /\ pc = "done"
    /\ pc' = "idle"
    /\ prev' = [ valid |-> TRUE, is_dry_run |-> cfg.is_dry_run,
                 overwrite_existing |-> cfg.overwrite_existing,
                 summary |-> summary,
                 clean |-> hist.excluded = {} /\ hist.save_failed = {}
                           /\ ~hist.pool_failed /\ ~hist.root_failed,
                 touched |-> {} ]
    /\ cfg' = [cfg EXCEPT !.is_dry_run = FALSE, !.overwrite_existing = FALSE]
    /\ summary' = NoSummary
    /\ hist' = NewHist
    /\ discovered' = << >>
    /\ parents' = << >>
    /\ tasks' = << >>
    /\ skipped' = 0
    /\ started' = 0
    /\ running' = {}
    /\ results' = << >>
    /\ UNCHANGED << dirs, files, now, runs, faults >>

\* a source file is modified: its modification time becomes the new time
Touch(f) ==
    /\ pc = "idle"
    /\ prev.valid
    /\ now < MaxTime
    /\ f \in DOMAIN files
    /\ f \in Sources
    /\ now' = now + 1
    /\ files' = [files EXCEPT ![f].mtime = now + 1]
    /\ prev' = [prev EXCEPT !.touched = @ \cup { f }]
    /\ UNCHANGED << dirs, cfg, pc, discovered, parents, tasks, skipped, started,
                    running, results, summary, hist, runs >>
    /\ UNCHANGED faults

Next ==
    \/ \E dry, ow \in BOOLEAN : StartRun(dry, ow)
    \/ \E dry, ow \in BOOLEAN : LoggingFails(dry, ow)
    \/ ScanEmpty
    \/ Scan
    \/ RootPresent
    \/ RootCreated
    \/ RootFails
    \/ PrepareDirDryRun
    \/ PrepareDirKeep
    \/ PrepareDirClear
    \/ PrepareDirClearBlocked
    \/ PrepareDirRmtreeFails
    \/ PrepareDirRecreateFails
    \/ PrepareDirCreate
    \/ PrepareDirCreateBlocked
    \/ PrepareDirCreateFails
    \/ Filter
    \/ FilterNothingToDo
    \/ FilterRaises
    \/ TaskStart
    \/ \E i \in running : TaskFinish(i)
    \/ \E i \in running : TaskSaveFails(i)
    \/ PoolFails
    \/ Aggregate
    \/ Finish
    \/ \E f \in Sources : Touch(f)

Spec == Init /\ [][Next]_vars

-----------------------------------------------------------------------------
(* The image transform on its own: one page of any size, extension and
   configuration goes through the pool *)

\* pages have sides in 1..MaxSide or one of the larger sides
MaxSide == 3
LargeSides == { 11, 15, 22 }
Sides == 1..MaxSide \cup LargeSides

\* the values the prompt and the GUI offer for output_format_for_others
Fallbacks == { "jpeg", "png" }

ResizeConfig(mode, th, tw, mh, mw) ==
    [Config(TRUE, DefaultSingle) EXCEPT
        !.resize_mode = mode, !.target_height = th, !.target_width = tw,
        !.max_height = mh, !.max_width = mw]

\* every resize mode with every target taken from Sides, split enabled
ResizeConfigs ==
    { ResizeConfig("none", 0, 0, 0, 0) }
    \cup { ResizeConfig("fixed_height", th, 0, 0, 0) : th \in Sides }
    \cup { ResizeConfig("fixed_width", 0, tw, 0, 0) : tw \in Sides }
    \cup { ResizeConfig("fit_bounds", 0, 0, mh, mw) : mh \in Sides, mw \in Sides }

\* no resize, every split setting and fallback format
FormatConfigs ==
    { [ResizeConfig("none", 0, 0, 0, 0) EXCEPT
          !.enable_double_page_split = sp, !.split_left_to_right = l2r,
          !.output_format_for_others = fb] :
        sp \in BOOLEAN, l2r \in BOOLEAN, fb \in Fallbacks }

Page(e) == FileKey(<< >>, "p", e)

\* the filter loop has made the one page of the input root a task
InitWorker ==
    /\ \E ow \in Sides, oh \in Sides, e \in supported_formats,
          c \in ResizeConfigs \cup FormatConfigs :
          /\ \/ c \in ResizeConfigs /\ e = ".jpg"
             \/ c \in FormatConfigs /\ ow <= MaxSide /\ oh <= MaxSide
          /\ cfg = c
          /\ files = [f \in { Page(e), LogFile } |->
                        IF f = LogFile THEN Image(0, 0, FALSE, LogFile)
                        ELSE Image(ow, oh, TRUE, f)]
          /\ discovered = << Page(e) >>
          /\ tasks = << Page(e) >>
          /\ hist = [NewHist EXCEPT !.made = { base_new_output_dir_root },
                                    !.checked = { Page(e) }]
    /\ dirs = { << >>, base_new_output_dir_root }
    /\ now = 0
    /\ pc = "pool"
    /\ parents = << >>
    /\ skipped = 0
    /\ started = 0
    /\ running = {}
    /\ results = << >>
    /\ summary = NoSummary
    /\ prev = NoPrev
    /\ runs = 1
    /\ faults = 0

NextWorker ==
    \/ TaskStart
    \/ \E i \in running : TaskFinish(i)
    \/ Aggregate

SpecWorker == InitWorker /\ [][NextWorker]_vars

-----------------------------------------------------------------------------
(* Scheduling of the pool *)

\* The first run over a tree without outputs has prepared its directories
\* and built its task list: the pool is about to start.
InitPool ==
    /\ \E present \in Trees \ { {} }, corrupt \in SUBSET { SrcC }, c \in Configs,
          dry \in BOOLEAN, ow \in BOOLEAN :
          LET F == [f \in present \cup { LogFile } |->
                      IF f = LogFile THEN Image(0, 0, FALSE, LogFile)
                      ELSE Image(SizeOf(f)[1], SizeOf(f)[2], f \notin corrupt, f)]
              made == IF dry THEN {}
                      ELSE { base_new_output_dir_root }
                           \cup { calculate_target_output_dir(f.dir) : f \in present }
              \* the mirror of the input root is new itself, which an
              \* overwriting run clears right after creating it
              removed == IF dry \/ ~ow THEN {}
                         ELSE { calculate_target_output_dir(f.dir) : f \in present }
                              \cap { base_new_output_dir_root }
              D == { << >> } \cup { f.dir : f \in present } \cup made
              conf == [c EXCEPT !.is_dry_run = dry, !.overwrite_existing = ow]
          IN  /\ corrupt \subseteq present
              /\ files = F
              /\ dirs = D
              /\ cfg = conf
              /\ discovered \in WalkOrders(get_all_image_files(D, F, conf.log_filename))
              /\ ~FilterLoop(D, F, conf, discovered).raised
              /\ tasks = FilterLoop(D, F, conf, discovered).tasks
              /\ tasks # << >>
              /\ skipped = FilterLoop(D, F, conf, discovered).skipped
              /\ hist = [NewHist EXCEPT
                            !.made = made,
                            !.removed = removed,
                            !.checked = FilterLoop(D, F, conf, discovered).checked]
    /\ now = 0
    /\ pc = "pool"
    /\ parents = << >>
    /\ started = 0
    /\ running = {}
    /\ results = << >>
    /\ summary = NoSummary
    /\ prev = NoPrev
    /\ runs = 1
    /\ faults = 0

NextPool ==
    \/ TaskStart
    \/ \E i \in running : TaskFinish(i)
    \/ \E i \in running : TaskSaveFails(i)
    \/ PoolFails
    \/ Aggregate

\* The pool's worker processes take a queued task whenever one of them is
\* idle, a worker call returns, and the parent's loop over imap_unordered
\* ends once every result is in.
LiveSpec ==
    /\ InitPool
    /\ [][NextPool]_vars
    /\ WF_vars(TaskStart)
    /\ WF_vars(\E i \in running : TaskFinish(i))
    /\ WF_vars(Aggregate)

\* the tasks waiting in the pool's queue
Queued == (started + 1)..Len(tasks)

\* task k has returned its result
Executed(k) ==
    k \in 1..Len(tasks) /\ \E j \in 1..Len(results) : results[j].file = tasks[k]

\* while the pool is dispatching, at most num_processes tasks are executing
\* and every other task without a result waits in the queue
PoolBounded ==
    pc = "pool" =>
        /\ Cardinality(running) <= cfg.num_processes
        /\ running \subseteq 1..started
        /\ started <= Len(tasks)
        /\ \A k \in 1..Len(tasks) :
              \/ Executed(k) /\ k \notin running /\ k \notin Queued
              \/ ~Executed(k) /\ k \in running
              \/ ~Executed(k) /\ k \notin running /\ k \in Queued

\* C20 as stated: at most num_processes tasks are executing, the others
\* wait in the queue, and every queued task is eventually executed.
C20_EveryQueuedTaskExecuted ==
    /\ []PoolBounded
    /\ \A k \in 1..Cardinality(Sources) :
          (pc = "pool" /\ k \in Queued) ~> Executed(k)

\* C20: while the pool is dispatching, at most num_processes tasks are
\* executing, every other task without a result waits in the queue, and
\* every queued task is eventually executed, unless the pool itself fails
\* and the batch is abandoned.
C20_BoundedParallelism ==
    /\ []PoolBounded
    /\ \A k \in 1..Cardinality(Sources) :
          (pc = "pool" /\ k \in Queued) ~> (Executed(k) \/ hist.pool_failed)

\* two tasks are executing, the pool is full, and a third waits
C20_Witness ==
    /\ pc = "pool"
    /\ Cardinality(running) = cfg.num_processes
    /\ Len(tasks) = 3
    /\ Queued = { 3 }
    /\ results = << >>

-----------------------------------------------------------------------------
(* Properties *)

\* a file below input_root/new
UnderNew(f) == IsPrefix(<< NEW_ROOT_OUTPUT_SUBFOLDER_NAME >>, f.dir)

\* the run in progress returned a summary (no exception left it)
Returned == pc = "done" /\ summary.status # "raised"

\* the previous run was a real run without overwrite that left every
\* discovered file with up-to-date outputs: no error, no excluded directory,
\* every file processed or already fresh
PrevRunComplete ==
    /\ prev.valid
    /\ ~prev.is_dry_run
    /\ ~prev.overwrite_existing
    /\ prev.clean
    /\ prev.summary.status \in { "completed", "nothing_to_do" }
    /\ prev.summary.total_errors = 0
    /\ prev.summary.total_discovered > 0
    /\ prev.summary.total_processed + prev.summary.skipped_due_to_cache
          = prev.summary.total_discovered

\* the run in progress is a real run without overwrite
RealRunNoOverwrite ==
    /\ pc # "idle"
    /\ ~cfg.is_dry_run
    /\ ~cfg.overwrite_existing

\* C1: after a real run without overwrite that processed every discovered
\* file successfully, a second such run over the untouched tree dispatches
\* no task, writes no output file, and returns skipped_due_to_cache equal to
\* total_discovered.
C1_Idempotence ==
    (PrevRunComplete /\ prev.touched = {} /\ RealRunNoOverwrite) =>
        /\ tasks = << >>
        /\ started = 0
        /\ hist.written = {}
        /\ hist.removed = {}
        /\ Returned =>
              /\ summary.status = "nothing_to_do"
              /\ summary.total_discovered = prev.summary.total_discovered
              /\ summary.skipped_due_to_cache = summary.total_discovered
              /\ summary.total_processed = 0

\* the second run has returned after a first run that wrote outputs
C1_Witness ==
    /\ PrevRunComplete
    /\ prev.summary.total_processed = prev.summary.total_discovered
    /\ prev.summary.total_processed >= 2
    /\ prev.touched = {}
    /\ RealRunNoOverwrite
    /\ Returned
    /\ summary.skipped_due_to_cache = 2

\* C2: after a successful real run without overwrite, when exactly one
\* source file is touched, the second run dispatches exactly that file and
\* counts every other discovered file as skipped.
C2_FreshnessInvalidation ==
    (PrevRunComplete /\ Cardinality(prev.touched) = 1 /\ RealRunNoOverwrite
        /\ (pc = "pool" \/ Returned)) =>
        /\ Range(tasks) = prev.touched
        /\ Len(tasks) = 1
        /\ skipped = Len(discovered) - 1
        /\ Len(discovered) = prev.summary.total_discovered
        /\ Returned =>
              /\ summary.total_to_process = 1
              /\ summary.skipped_due_to_cache = summary.total_discovered - 1

\* the touched file was reprocessed and another file was skipped
C2_Witness ==
    /\ PrevRunComplete
    /\ prev.touched = { SrcA }
    /\ RealRunNoOverwrite
    /\ Returned
    /\ tasks = << SrcA >>
    /\ summary.total_processed = 1
    /\ summary.skipped_due_to_cache >= 1

\* C3: no file in input_root/new or below it is returned by
\* get_all_image_files, so none is discovered or dispatched.
C3_OutputIsolation ==
    /\ \A f \in get_all_image_files(dirs, files, cfg.log_filename) : ~UnderNew(f)
    /\ \A i \in 1..Len(discovered) : ~UnderNew(discovered[i])
    /\ \A i \in 1..Len(tasks) : ~UnderNew(tasks[i])

\* a scan has listed the sources while image files sat below input_root/new
C3_Witness ==
    /\ pc = "root"
    /\ discovered # << >>
    /\ \E f \in DOMAIN files :
          /\ UnderNew(f)
          /\ Len(f.dir) = 2
          /\ Lower(f.ext) \in supported_formats
    /\ StaleFile \in DOMAIN files \/ FreshFile \in DOMAIN files

\* the run in progress is a real run that follows a dry run of the same
\* configuration with nothing touched in between: both started from the same
\* files and directories (but for the log file)
RealAfterDry ==
    /\ prev.valid
    /\ prev.is_dry_run
    /\ prev.touched = {}
    /\ prev.summary.status # "raised"
    /\ ~cfg.is_dry_run
    /\ cfg.overwrite_existing = prev.overwrite_existing
    /\ Returned

\* the real run in progress met no failure, prepared every mirrored
\* directory and skipped nothing
RealRunUndisturbed ==
    /\ hist.excluded = {}
    /\ hist.save_failed = {}
    /\ ~hist.pool_failed
    /\ ~hist.root_failed
    /\ summary.skipped_due_to_cache = 0
    /\ summary.total_to_process = summary.total_discovered

\* a dry run changes no directory and no file other than the log file
DryRunWritesNothing ==
    (pc # "idle" /\ cfg.is_dry_run) =>
        /\ hist.written = {}
        /\ hist.removed = {}
        /\ hist.made = {}

SummaryStatuses == { "completed", "no_images", "nothing_to_do", "failed" }

\* C5: process_images_with_config never lets an exception reach its
\* caller: every run ends by returning a summary whose status is completed,
\* no_images, nothing_to_do or failed.  Stated for the runs in which the
\* environment does not fail (faults = 0).
C5_NeverPropagates ==
    (pc = "done" /\ faults = 0) => summary.status \in SummaryStatuses

\* the number of results recorded for task i
ResultsOf(i) == Cardinality({ j \in 1..Len(results) : results[j].file = tasks[i] })

\* C6: in every run that returns status completed each task contributed
\* exactly one result, tallied as a success or as an error, whatever the
\* order of completion: total_processed + total_errors = total_to_process.
C6_EveryResultOnce ==
    /\ \A i \in 1..Len(tasks) : ResultsOf(i) <= 1
    /\ \A j \in 1..Len(results) : results[j].status \in { "success", "error" }
    /\ (pc = "done" /\ summary.status = "completed") =>
          /\ summary.total_to_process = Len(tasks)
          /\ summary.total_processed + summary.total_errors
                = summary.total_to_process
          /\ ~hist.pool_failed =>
                /\ \A i \in 1..Len(tasks) : ResultsOf(i) = 1
                /\ summary.total_processed = CountStatus(results, "success")
                /\ summary.total_errors = CountStatus(results, "error")

\* a completed run whose results arrived out of task order, one of them an
\* error
C6_Witness ==
    /\ pc = "done"
    /\ summary.status = "completed"
    /\ ~hist.pool_failed
    /\ Len(tasks) = 3
    /\ results[1].file = tasks[2]
    /\ results[2].file = tasks[3]
    /\ summary.total_errors = 1
    /\ summary.total_processed = 2

\* the task of file f ends in an except clause of worker_process_image
TaskFails(f) ==
    \/ f \in hist.save_failed
    \/ worker_process_image(dirs, files, f, cfg, now).err

\* C7: a task whose file cannot be processed returns an error result and
\* every other task still returns its own result; the run returns status
\* completed with the failures counted in total_errors.
C7_FailureIsolation ==
    (pc = "done" /\ tasks # << >> /\ ~hist.pool_failed) =>
        /\ summary.status = "completed"
        /\ \A i \in 1..Len(tasks) :
              \E j \in 1..Len(results) :
                  /\ results[j].file = tasks[i]
                  /\ results[j].status = "error" <=> TaskFails(tasks[i])
        /\ summary.total_errors
              = Cardinality({ i \in 1..Len(tasks) : TaskFails(tasks[i]) })
        /\ summary.total_processed = Len(tasks) - summary.total_errors

\* the unreadable file failed first and both other files were still
\* processed
C7_Witness ==
    /\ pc = "done"
    /\ summary.status = "completed"
    /\ Len(results) = 3
    /\ results[1] = Result("error", SrcC, FALSE)
    /\ ~files[SrcC].ok
    /\ \E j, k \in 2..3 :
          /\ results[j] = Result("success", SrcA, TRUE)
          /\ results[k] = Result("success", SrcB, FALSE)
    /\ summary.total_errors = 1
    /\ summary.total_processed = 2

\* C8: when the pool raises, the run still returns a summary of status
\* completed in which every dispatched task is an error and none is
\* processed, however many tasks had finished.
C8_PoolFailure ==
    hist.pool_failed =>
        /\ pc = "done"
        /\ summary.status = "completed"
        /\ summary.total_to_process = Len(tasks)
        /\ summary.total_errors = summary.total_to_process
        /\ summary.total_processed = 0
        /\ summary.total_split = 0

\* the pool failed after a task had finished successfully and written
C8_Witness ==
    /\ hist.pool_failed
    /\ pc = "done"
    /\ Len(tasks) >= 2
    /\ \E j \in 1..Len(results) : results[j].status = "success"
    /\ hist.written # {}

\* C9: when input_root/new is absent and cannot be created in a real run,
\* the run returns status failed before any mirrored directory is prepared,
\* any freshness check is made or any task is dispatched; nothing is
\* written and the counts of the summary are 0.
C9_RootFailure ==
    hist.root_failed =>
        /\ pc = "done"
        /\ ~cfg.is_dry_run
        /\ summary.status = "failed"
        /\ summary.total_processed = 0
        /\ summary.total_split = 0
        /\ summary.skipped_due_to_cache = 0
        /\ summary.total_to_process = 0
        /\ tasks = << >>
        /\ started = 0
        /\ results = << >>
        /\ hist.made = {}
        /\ hist.removed = {}
        /\ hist.excluded = {}
        /\ hist.checked = {}
        /\ hist.written = {}
        /\ ~PathExists(dirs, files, base_new_output_dir_root)

\* the run was aborted with files discovered in two directories
C9_Witness ==
    /\ hist.root_failed
    /\ pc = "done"
    /\ summary.status = "failed"
    /\ summary.total_discovered >= 2
    /\ summary.total_errors = 1

\* C10: when preparing the mirrored directory of a source directory fails,
\* no file of that directory becomes a task, is checked or is counted as
\* skipped; the run is not aborted, and every file of the other directories
\* is still filtered, and dispatched when overwrite is set.
C10_LocalizedDirFailure ==
    \A d \in hist.excluded :
        /\ ~cfg.is_dry_run
        /\ \A i \in 1..Len(discovered) : discovered[i].dir # d
        /\ \A i \in 1..Len(tasks) : tasks[i].dir # d
        /\ \A f \in hist.checked : f.dir # d
        /\ skipped + Len(tasks) <= Len(discovered)
        /\ pc = "done" => summary.status \in { "completed", "nothing_to_do" }
        /\ (pc = "pool" \/ Returned) =>
              \A f \in get_all_image_files(dirs, files, cfg.log_filename) :
                  f.dir \notin hist.excluded =>
                      /\ f \in Range(discovered)
                      /\ cfg.overwrite_existing => f \in Range(tasks)
                      /\ (~cfg.overwrite_existing
                            /\ IsDir(dirs, calculate_target_output_dir(f.dir))) =>
                            f \in hist.checked

\* clearing the mirror of the input root failed in a run with overwrite and
\* the file of the other directory was processed
C10_Witness ==
    /\ pc = "done"
    /\ cfg.overwrite_existing
    /\ hist.excluded = { << >> }
    /\ tasks = << SrcB >>
    /\ summary.status = "completed"
    /\ summary.total_processed = 1
    /\ summary.total_discovered = 1

\* the run in progress is a dry run or an overwriting run
CacheOffMode == pc # "idle" /\ (cfg.overwrite_existing \/ cfg.is_dry_run)

\* C11: in overwrite or dry-run mode check_if_already_processed answers
\* false for every file, whatever outputs exist, so the run counts no file
\* as skipped and returns skipped_due_to_cache = 0.
C11_CacheOffInModes ==
    CacheOffMode =>
        /\ \A f \in DOMAIN files :
              check_if_already_processed(dirs, files, f, cfg) = "no"
        /\ skipped = 0
        /\ Returned => summary.skipped_due_to_cache = 0

\* a dry run has returned although the output of a discovered file was
\* present and not older than its source
C11_Witness ==
    /\ CacheOffMode
    /\ cfg.is_dry_run
    /\ ~cfg.overwrite_existing
    /\ Returned
    /\ SrcA \in hist.checked
    /\ FreshFile \in DOMAIN files
    /\ files[FreshFile].mtime >= files[SrcA].mtime
    /\ summary.total_processed = summary.total_discovered
    /\ summary.total_discovered = 2

\* the output files expected of source f under the configuration in force:
\* both pages when the file is to be split, the single page otherwise
ExpectedOutputs(f) ==
    LET names == ExpectedNames(f, cfg, SimResize(files[f].w, files[f].h, cfg))
    IN  { FileKey(calculate_target_output_dir(f.dir), names[i].base, names[i].ext) :
            i \in 1..Len(names) }

\* every expected output of f exists and is not older than f
AllOutputsFresh(f) ==
    /\ IsDir(dirs, calculate_target_output_dir(f.dir))
    /\ \A o \in ExpectedOutputs(f) :
          o \in DOMAIN files /\ files[o].mtime >= files[f].mtime

\* the filter loop has just built the task list: the file system is the one
\* the freshness checks saw
JustFiltered == pc = "pool" /\ started = 0 /\ results = << >>

\* C12: in a real run without overwrite the check answers true only for a
\* file whose mirrored directory exists and whose expected outputs (two for
\* a split file, one otherwise) all exist with an mtime not older than the
\* source's; a checked file with a missing or older expected output is a task.
C12_FreshOnlyIfAllOutputs ==
    RealRunNoOverwrite =>
        /\ \A f \in DOMAIN files :
              check_if_already_processed(dirs, files, f, cfg) = "yes" =>
                 /\ AllOutputsFresh(f)
                 /\ Cardinality(ExpectedOutputs(f)) =
                       IF cfg.enable_double_page_split
                          /\ SimResize(files[f].w, files[f].h, cfg)[1]
                                > SimResize(files[f].w, files[f].h, cfg)[2]
                       THEN 2 ELSE 1
        /\ JustFiltered =>
              \A f \in hist.checked :
                 ~AllOutputsFresh(f) => \E i \in 1..Len(tasks) : tasks[i] = f

\* the first page of a spread is up to date, the second is missing, and
\* the spread is a task again while the other file is skipped
C12_Witness ==
    /\ RealRunNoOverwrite
    /\ JustFiltered
    /\ cfg.enable_double_page_split
    /\ FileKey(<< "new" >>, "a_p1", ".jpg") \in DOMAIN files
    /\ files[FileKey(<< "new" >>, "a_p1", ".jpg")].mtime >= files[SrcA].mtime
    /\ FileKey(<< "new" >>, "a_p2", ".jpg") \notin DOMAIN files
    /\ SrcA \in hist.checked
    /\ tasks = << SrcA >>
    /\ skipped = 1

-----------------------------------------------------------------------------
(* Properties of the image transform *)

\* a page whose task has returned
Done(f) == \E i \in 1..Len(results) : results[i].file = f

\* a page whose task has returned success
Succeeded(f) ==
    \E i \in 1..Len(results) : results[i].file = f /\ results[i].status = "success"

\* the readable pages of the run
Pages == { f \in Range(discovered) : f \in DOMAIN files /\ files[f].ok }

\* the size the worker gives a page before splitting, and the size the
\* freshness check expects
Resized(f) == WorkerResize(files[f].w, files[f].h, cfg)
Simulated(f) == SimResize(files[f].w, files[f].h, cfg)

\* C13: in fixed_height mode with target_height H > 0 the planned size of a
\* page of size (ow, oh) is (floor(ow * H / oh), H), and (ow, oh) itself
\* when oh = H, in the worker and in the freshness check alike.
C13_FixedHeightFloor ==
    \A f \in Pages :
        (Done(f) /\ cfg.resize_mode = "fixed_height" /\ cfg.target_height > 0) =>
            LET ow == files[f].w
                oh == files[f].h
                H == cfg.target_height
                planned == IF oh = H THEN << ow, oh >> ELSE << (ow * H) \div oh, H >>
            IN  Resized(f) = planned /\ Simulated(f) = planned

\* C14: in fit_bounds mode with bounds W > 0 and H > 0 a page within both
\* bounds keeps its size; any other page gets a size within both bounds and
\* with at least one side equal to its bound.
C14_FitBounds ==
    \A f \in Pages :
        (Done(f) /\ cfg.resize_mode = "fit_bounds"
                 /\ cfg.max_width > 0 /\ cfg.max_height > 0) =>
            LET ow == files[f].w
                oh == files[f].h
                W == cfg.max_width
                H == cfg.max_height
                fits(d) == IF ow <= W /\ oh <= H THEN d = << ow, oh >>
                           ELSE /\ d[1] <= W
                                /\ d[2] <= H
                                /\ (d[1] = W \/ d[2] = H)
            IN  fits(Resized(f)) /\ fits(Simulated(f))

\* the files this run has written that were made from page f
OutputsOf(f) == { o \in hist.written \cap DOMAIN files : files[o].src = f }

\* the outputs of f that hold the given part of the resized image
Parts(f, part) == { o \in OutputsOf(f) : files[o].part = part }

\* the worker splits the page: split enabled and wider than high once resized
SplitDue(f) ==
    cfg.enable_double_page_split /\ Resized(f)[2] > 0 /\ Resized(f)[1] > Resized(f)[2]

\* C15: a page that is wider than high after resizing, with split enabled,
\* is saved as a left crop of width w \div 2 and a right crop of width
\* w - w \div 2, both of the resized height; the left crop starts at column
\* 0, the right crop where the left one ends, and the right crop ends at
\* column w, so the two crops side by side are the resized image.
C15_SplitCorrect ==
    \A f \in Pages :
        (Succeeded(f) /\ ~cfg.is_dry_run /\ SplitDue(f)) =>
            LET w == Resized(f)[1]
                h == Resized(f)[2]
            IN  /\ Cardinality(OutputsOf(f)) = 2
                /\ \E l \in Parts(f, "left"), r \in Parts(f, "right") :
                      /\ l # r
                      /\ files[l].w = w \div 2
                      /\ files[r].w = w - w \div 2
                      /\ files[l].h = h
                      /\ files[r].h = h
                      /\ files[l].x = 0
                      /\ files[r].x = files[l].x + files[l].w
                      /\ files[r].x + files[r].w = w

\* a page was resized to an odd width and split into crops of unequal width
C15_Witness ==
    \E f \in Pages :
        /\ Succeeded(f)
        /\ SplitDue(f)
        /\ Resized(f) # << files[f].w, files[f].h >>
        /\ Resized(f)[1] % 2 = 1
        /\ \E l \in Parts(f, "left"), r \in Parts(f, "right") :
              files[r].w = files[l].w + 1

\* the path of the output of page f named by template t with page number pn
OutputPath(f, t, pn) ==
    FileKey(calculate_target_output_dir(f.dir),
            Format(t, f.base, FinalOutputExt(f, cfg), pn).base,
            Format(t, f.base, FinalOutputExt(f, cfg), pn).ext)

\* the paths a task saves to, in the order of the saves
SavePaths(f, c) ==
    LET saves == worker_process_image(dirs, files, f, c, now).saves
    IN  [k \in 1..Len(saves) |-> saves[k][1]]

\* C16: when a page is split, split_left_to_right true puts the left crop
\* in the page-1 file and the right crop in the page-2 file, false puts the
\* right crop in the page-1 file and the left crop in the page-2 file; the
\* two file names are the same under either order.
C16_SplitOrder ==
    \A f \in Pages :
        (Succeeded(f) /\ ~cfg.is_dry_run /\ SplitDue(f)) =>
            LET p1 == OutputPath(f, cfg.template_split_page1, 1)
                p2 == OutputPath(f, cfg.template_split_page2, 2)
            IN  /\ p1 \in DOMAIN files
                /\ p2 \in DOMAIN files
                /\ files[p1].src = f
                /\ files[p2].src = f
                /\ files[p1].part = IF cfg.split_left_to_right THEN "left" ELSE "right"
                /\ files[p2].part = IF cfg.split_left_to_right THEN "right" ELSE "left"
                /\ SavePaths(f, cfg) = << p1, p2 >>
                /\ SavePaths(f, [cfg EXCEPT !.split_left_to_right = ~@]) = << p1, p2 >>

\* a page of odd width was split right to left: the page-1 file holds the
\* wider right crop
C16_Witness ==
    \E f \in Pages :
        /\ Succeeded(f)
        /\ SplitDue(f)
        /\ ~cfg.split_left_to_right
        /\ files[OutputPath(f, cfg.template_split_page1, 1)].part = "right"
        /\ files[OutputPath(f, cfg.template_split_page2, 2)].part = "left"
        /\ files[OutputPath(f, cfg.template_split_page1, 1)].w
              > files[OutputPath(f, cfg.template_split_page2, 2)].w

\* the two output families
OutputFamilies == { << "JPEG", ".jpg" >>, << "PNG", ".png" >> }

\* the family the format policy gives a source extension
FamilyOf(e, fallback) ==
    IF e \in { ".jpg", ".jpeg" } THEN << "JPEG", ".jpg" >>
    ELSE IF e = ".png" THEN << "PNG", ".png" >>
    ELSE IF fallback = "jpeg" THEN << "JPEG", ".jpg" >>
    ELSE << "PNG", ".png" >>

\* C17: get_dynamic_output_format_and_ext gives (JPEG, .jpg) for .jpg and
\* .jpeg, (PNG, .png) for .png, and for .bmp, .gif, .tiff and .webp the
\* configured fallback, (JPEG, .jpg) for jpeg and (PNG, .png) for png; every
\* output is saved in one of these two families, with the matching
\* extension, never in the format of its source.
C17_FormatPolicy ==
    /\ \A e \in supported_formats :
          /\ get_dynamic_output_format_and_ext(e, cfg)
                = FamilyOf(e, cfg.output_format_for_others)
          /\ get_dynamic_output_format_and_ext(e, cfg) \in OutputFamilies
    /\ \A f \in Pages : \A o \in OutputsOf(f) :
          /\ << files[o].fmt, o.ext >>
                = FamilyOf(Lower(f.ext), cfg.output_format_for_others)
          /\ << files[o].fmt, o.ext >> \in OutputFamilies

\* a .webp page was saved as PNG with extension .png, the fallback
C17_Witness ==
    \E f \in Pages :
        /\ Succeeded(f)
        /\ f.ext = ".webp"
        /\ cfg.output_format_for_others = "png"
        /\ \E o \in OutputsOf(f) : files[o].fmt = "PNG" /\ o.ext = ".png"

\* C18: with a single-page template that contains {page_num}, and no
\* failure of the environment, no run ends in an exception and no readable
\* file gets an error result: the single-page name is computed without a
\* page number in the freshness check and in the worker.
C18_PageNumTolerated ==
    (cfg.template_single.page /\ faults = 0) =>
        /\ pc = "done" => summary.status # "raised"
        /\ \A i \in 1..Len(results) :
              (results[i].file \in DOMAIN files /\ files[results[i].file].ok) =>
                  results[i].status = "success"

\* the output paths task f computes (the files it saves in a real run)
ComputedPaths(f) == Range(SavePaths(f, [cfg EXCEPT !.is_dry_run = FALSE]))

\* C19: no two distinct tasks of a run compute the same output path, so
\* two tasks that have both returned success have written disjoint sets of
\* files.
C19_DistinctOutputPaths ==
    \A i, j \in 1..Len(results) :
        (i # j /\ results[i].status = "success" /\ results[j].status = "success") =>
            ComputedPaths(results[i].file) \cap ComputedPaths(results[j].file) = {}

\* the discovered files the freshness check could not open
UnreadableChecked == { f \in hist.checked : f \notin DOMAIN files \/ ~files[f].ok }

\* C21: a source the freshness check cannot open is not up to date: it is
\* not counted as skipped, it is a task, and its task returns an error; so
\* it is on every run, the first and the repeated one alike.
C21_UnreadableIsReprocessed ==
    RealRunNoOverwrite =>
        \A f \in UnreadableChecked :
            /\ check_if_already_processed(dirs, files, f, cfg) = "no"
            /\ pc = "pool" \/ Returned =>
                  /\ \E i \in 1..Len(tasks) : tasks[i] = f
                  /\ skipped <= Len(discovered) - 1
                  /\ \A i \in 1..Len(results) :
                        results[i].file = f => results[i].status = "error"
            /\ (Returned /\ ~hist.pool_failed) =>
                  /\ \E i \in 1..Len(results) : results[i].file = f
                  /\ summary.total_errors >= 1
                  /\ summary.skipped_due_to_cache <= summary.total_discovered - 1

\* the second real run over the same tree reports the unreadable file as
\* an error again, while the other files are skipped
C21_Witness ==
    /\ RealRunNoOverwrite
    /\ runs = 2
    /\ prev.valid /\ ~prev.is_dry_run /\ ~prev.overwrite_existing
    /\ prev.summary.total_errors = 1
    /\ Returned
    /\ UnreadableChecked = { SrcC }
    /\ summary.total_errors = 1
    /\ summary.total_to_process = 1
    /\ summary.skipped_due_to_cache = 2

\* a page the worker has split whose resized width is odd
OddSplit(f) == Succeeded(f) /\ ~cfg.is_dry_run /\ SplitDue(f) /\ Resized(f)[1] % 2 = 1

\* C22 as stated: on an odd resized width w the left crop has width
\* w - w \div 2, one more than the right crop of width w \div 2.
C22_RemainderLeft ==
    \A f \in Pages :
        OddSplit(f) =>
            \A l \in Parts(f, "left"), r \in Parts(f, "right") :
                /\ files[l].w = Resized(f)[1] - Resized(f)[1] \div 2
                /\ files[r].w = Resized(f)[1] \div 2
                /\ files[l].w = files[r].w + 1

\* C22: on an odd resized width w the crop is made at column w \div 2, so
\* the left crop has width w \div 2 and the right crop has width
\* w - w \div 2, one more: the remainder column goes to the right part.
C22_RemainderRight ==
    \A f \in Pages :
        OddSplit(f) =>
            /\ Parts(f, "left") # {}
            /\ Parts(f, "right") # {}
            /\ \A l \in Parts(f, "left"), r \in Parts(f, "right") :
                  /\ files[l].w = Resized(f)[1] \div 2
                  /\ files[r].w = Resized(f)[1] - Resized(f)[1] \div 2
                  /\ files[r].w = files[l].w + 1
                  /\ files[r].x = Resized(f)[1] \div 2

\* a page three columns wide was split without resizing: one column on the
\* left, two on the right
C22_Witness ==
    \E f \in Pages :
        /\ OddSplit(f)
        /\ Resized(f) = << files[f].w, files[f].h >>
        /\ files[f].w = 3
        /\ \E l \in Parts(f, "left"), r \in Parts(f, "right") :
              files[l].w = 1 /\ files[r].w = 2

\* C23: a page is split, into a left and a right part and with a result
\* that says so, exactly if enable_double_page_split is set and its size
\* after resizing has height > 0 and width > height; every other page that
\* is processed gives one file, the whole resized page, so a square or
\* portrait page is never split; total_split is the number of processed
\* pages that are wider than high after resizing.
C23_SplitDecision ==
    /\ \A f \in Pages :
          /\ \A i \in 1..Len(results) :
                results[i].file = f => (results[i].is_split <=> SplitDue(f))
          /\ (Succeeded(f) /\ SplitDue(f)) =>
                /\ Cardinality(OutputsOf(f)) = 2
                /\ Parts(f, "whole") = {}
                /\ Cardinality(Parts(f, "left")) = 1
                /\ Cardinality(Parts(f, "right")) = 1
          /\ (Succeeded(f) /\ ~SplitDue(f)) =>
                /\ Cardinality(OutputsOf(f)) = 1
                /\ \A o \in OutputsOf(f) :
                      /\ files[o].part = "whole"
                      /\ << files[o].w, files[o].h >> = Resized(f)
          /\ ~Succeeded(f) => OutputsOf(f) = {}
    /\ (Returned /\ summary.status = "completed") =>
          summary.total_split =
              Cardinality({ f \in Pages : Succeeded(f) /\ SplitDue(f) })

\* with split enabled a page was resized to a square, saved whole and
\* tallied as not split
C23_Witness ==
    \E f \in Pages :
        /\ cfg.enable_double_page_split
        /\ files[f].w > files[f].h
        /\ Resized(f)[1] = Resized(f)[2]
        /\ Succeeded(f)
        /\ Cardinality(OutputsOf(f)) = 1
        /\ Returned
        /\ summary.total_processed = 1
        /\ summary.total_split = 0

\* the scan has just returned its list
Scanned == pc = "root"

\* C24: the sequence get_all_image_files returns is determined by the tree:
\* it is the same whatever order the file system lists the entries of a
\* directory in, so two scans of an unchanged tree enumerate identically.
C24_DeterministicScan ==
    Scanned =>
        \A s \in WalkOrders(get_all_image_files(dirs, files, cfg.log_filename)) :
            s = discovered

-----------------------------------------------------------------------------
(* Properties of the run as a whole *)

\* the steps from one phase to the next: scan is Scanning, root and prep
\* are PreparingOutputDirs, filter is Filtering, pool is Dispatching, and
\* the step from pool to done is Aggregating; a phase can also end the run
PhaseSteps ==
    { << "idle", "scan" >>, << "idle", "done" >>,
      << "scan", "root" >>, << "scan", "done" >>,
      << "root", "prep" >>, << "root", "done" >>,
      << "prep", "filter" >>,
      << "filter", "pool" >>, << "filter", "done" >>,
      << "pool", "done" >>,
      << "done", "idle" >> }

\* no task has been handed to a worker yet
NothingDispatched == started = 0 /\ running = {} /\ results = << >>

\* C25: a run goes through scanning, preparing the output directories,
\* filtering, dispatching and aggregating in this order; output directories
\* are created and deleted only while the directories are prepared and the
\* freshness cache decides only while filtering, both before the first task
\* starts, and a task starts only in the pool phase, after both are complete.
C25_PhaseOrder ==
    [][ /\ pc' # pc => << pc, pc' >> \in PhaseSteps
        /\ (dirs' # dirs \/ (pc # "done" /\ (hist'.made # hist.made
                                             \/ hist'.removed # hist.removed))) =>
              pc \in { "root", "prep" } /\ NothingDispatched
        /\ (pc \notin { "idle", "done" }
            /\ (tasks' # tasks \/ skipped' # skipped \/ hist'.checked # hist.checked)) =>
              pc = "filter" /\ NothingDispatched
        /\ (started' > started \/ running' # running \/ Len(results') > Len(results)) =>
              pc = "pool" /\ parents = << >>
      ]_vars

\* a task is running in a run that has created a mirrored directory, skipped
\* one file and queued another
C25_Witness ==
    /\ pc = "pool"
    /\ running # {}
    /\ hist.made # {}
    /\ skipped = 1
    /\ hist.checked # {}
    /\ Len(tasks) = 1

\* the directory loop of the run in progress has ended
Prepared ==
    \/ pc \in { "filter", "pool" }
    \/ pc = "done" /\ summary.status \in { "completed", "nothing_to_do" }

\* the files in the mirrored directory of source directory d that no task of
\* the run in progress has written: they were there before the run
StaleIn(d) ==
    { f \in DOMAIN files :
        f.dir = calculate_target_output_dir(d) /\ f \notin hist.written }

\* the source directories in which the scan of the run in progress found
\* images: those still listed and those excluded since
ScannedParents == hist.excluded \cup { f.dir : f \in Range(discovered) }

\* a step of a dry run leaves the directories and every file below
\* input_root/new as they are
DryRunStepKeepsOutput ==
    (pc # "idle" /\ cfg.is_dry_run) =>
        /\ dirs' = dirs
        /\ \A f \in DOMAIN files \cup DOMAIN files' :
              UnderNew(f) => f \in DOMAIN files /\ f \in DOMAIN files' /\ files'[f] = files[f]

\* C26 as stated: in a real run with overwrite_existing, once the
\* directories are prepared no file from before the run is left in the
\* mirrored directory of any source directory in which images were found;
\* a dry run leaves the directories and their content untouched.
C26_OverwriteClearsAll ==
    /\ [](( pc # "idle" /\ ~cfg.is_dry_run /\ cfg.overwrite_existing /\ Prepared) =>
            \A d \in ScannedParents : StaleIn(d) = {})
    /\ [][DryRunStepKeepsOutput]_vars

\* C26: in a real run with overwrite_existing, once the directories are
\* prepared no file from before the run is left in the mirrored directory of
\* a source directory whose images are still in the run, that is, whose
\* mirrored directory was deleted and recreated without an OSError; a dry
\* run leaves the directories and their content untouched.
C26_OverwriteClears ==
    /\ [](( pc # "idle" /\ ~cfg.is_dry_run /\ cfg.overwrite_existing /\ Prepared) =>
            \A d \in ScannedParents \ hist.excluded : StaleIn(d) = {})
    /\ [][DryRunStepKeepsOutput]_vars

\* an overwriting run has deleted and recreated input_root/new, which
\* existed before, and every file now in it was written by its tasks
C26_Witness ==
    /\ Returned
    /\ ~cfg.is_dry_run
    /\ cfg.overwrite_existing
    /\ runs = 1
    /\ hist.excluded = {}
    /\ base_new_output_dir_root \in hist.removed
    /\ StaleFile \notin DOMAIN files
    /\ hist.written # {}
    /\ \A f \in DOMAIN files : UnderNew(f) => f \in hist.written

\* is_split_candidate of the freshness check, with the split setting
SplitExpected(f) ==
    cfg.enable_double_page_split /\ Simulated(f)[2] > 0 /\ Simulated(f)[1] > Simulated(f)[2]

\* C27: for every page size and configuration the size and the split
\* decision the freshness check simulates are those the worker computes, and
\* the paths the check expects are exactly the paths a worker that
\* succeeds has written, so the check then finds the page up to date; a
\* worker whose resize is refused writes nothing.
C27_CacheAgreesWithWorker ==
    \A f \in Pages :
        /\ Simulated(f) = Resized(f)
        /\ SplitExpected(f) <=> is_split_action(cfg, Resized(f)[1], Resized(f)[2])
        /\ Succeeded(f) =>
              /\ ExpectedOutputs(f) = OutputsOf(f)
              /\ check_if_already_processed(dirs, files, f, cfg) = "yes"
        /\ (Done(f) /\ ~Succeeded(f)) => OutputsOf(f) = {}

\* a spread was scaled down by fit_bounds and split, and the freshness
\* check expects the two files the worker has written
C27_Witness ==
    \E f \in Pages :
        /\ cfg.resize_mode = "fit_bounds"
        /\ Resized(f) # << files[f].w, files[f].h >>
        /\ SplitExpected(f)
        /\ Succeeded(f)
        /\ Cardinality(OutputsOf(f)) = 2
        /\ ExpectedOutputs(f) = OutputsOf(f)

\* C28: a summary returned with status completed or nothing_to_do accounts
\* for every discovered file: total_discovered is the number of files the
\* cache skipped plus the number of tasks.
C28_SummaryAccounting ==
    (pc = "done" /\ summary.status \in { "completed", "nothing_to_do" }) =>
        summary.total_discovered
            = summary.skipped_due_to_cache + summary.total_to_process

\* the source directories the directory loop is done with
PreparedDirs == ScannedParents \ Range(parents)

\* the directories a step deletes: those that disappear and the mirrored
\* directory that rmtree removed and makedirs put back
Deleted == (dirs \ dirs') \cup (hist'.removed \ hist.removed)

\* C29: in a real run with overwrite_existing no step of the directory loop
\* deletes a directory at or above the mirrored directory of a source
\* directory the loop is already done with; and once the loop has ended the
\* mirrored directory of every source directory still in the run exists.
C29_PreparationOrder ==
    /\ [][ (pc = "prep" /\ ~cfg.is_dry_run /\ cfg.overwrite_existing) =>
              \A m \in Deleted : \A d \in PreparedDirs :
                  ~IsPrefix(m, calculate_target_output_dir(d)) ]_vars
    /\ []((pc # "idle" /\ ~cfg.is_dry_run /\ cfg.overwrite_existing /\ Prepared) =>
            \A d \in ScannedParents \ hist.excluded :
                IsDir(dirs, calculate_target_output_dir(d)))

\* an overwriting run has deleted input_root/new, with the mirrored
\* directory of sub in it, and created both again before filtering
C29_Witness ==
    /\ pc = "filter"
    /\ ~cfg.is_dry_run
    /\ cfg.overwrite_existing
    /\ runs = 2
    /\ hist.excluded = {}
    /\ base_new_output_dir_root \in hist.removed
    /\ calculate_target_output_dir(<< "sub" >>) \in hist.made
    /\ \A d \in { << >>, << "sub" >> } : IsDir(dirs, calculate_target_output_dir(d))
    /\ { f.dir : f \in Range(discovered) } = { << >>, << "sub" >> }

\* the directory d is input_root/new or lies below it
DirUnderNew(d) == IsPrefix(base_new_output_dir_root, d)

\* the files outside input_root/new other than the log file
SourceSide(F) == { f \in DOMAIN F : ~UnderNew(f) /\ f # LogFile }

====
